---- MODULE Spec2Model ----
(***************************************************************************)
(* Model of src/src/blockchain.js: the Blockchain class of the private     *)
(* star-registry ledger.                                                   *)
(*                                                                         *)
(* Every method of the class wraps its work in a Promise whose executor    *)
(* runs synchronously up to its first `await`; each `await` parks the rest *)
(* of the call on the JavaScript microtask queue, which is first-in        *)
(* first-out.  The model keeps that queue (`queue`) and one record per     *)
(* call (`calls`) holding the call's locals and its position (`pc`).       *)
(* New calls may be issued between any two microtasks.                     *)
(*                                                                         *)
(* The Block class (block.js) is not part of the sources at hand; its      *)
(* constructor, validate() and getBData() are modelled from the            *)
(* specification (section 4.1).                                            *)
(***************************************************************************)
EXTENDS Integers, Sequences, FiniteSets, TLC

\* ------------------------------------------------------------------ bounds
\* number of append calls (submitStar or _addBlock) issued by clients
MaxCalls == 2

\* instants (seconds since epoch) the wall clock passes through
ClockValues == {1000, 1600, 301000}

\* ------------------------------------------------------------- input sets
Addresses == {"addrA"}
Stars == {"star1"}
\* outcome of bitcoinMessage.verify(message, address, signature):
\* "valid" -> true, "wrong" -> false, "malformed" -> throws
Signatures == {"valid", "wrong", "malformed"}

\* number of _addBlock calls issued by clients in the append-only runs
MaxAppends == 4

Procs == 0 .. (IF MaxAppends > MaxCalls THEN MaxAppends ELSE MaxCalls)
InitProc == 0

\* ------------------------------------------------------------------ Block
\* null, as the value of hash / previousBlockHash
NoHash == << >>
\* a numeric field of a Block not yet sealed
Unset == -1
\* "no block": the null that getBlockByHeight resolves with on a miss
NoBlock == [hash |-> NoHash, height |-> Unset, body |-> << >>, time |-> Unset,
            previousBlockHash |-> NoHash, id |-> Unset]

\* body encoding done by the Block constructor, and its inverse
EncodeBody(data) == <<"hex", data>>
DecodeBody(body) == body[2]

\* new BlockClass.Block(data); `id` is the identity of the JavaScript object
\* (the call that created it), not a field the program reads
Block(data, p) ==
    [hash |-> NoHash, height |-> Unset, body |-> EncodeBody(data), time |-> Unset,
     previousBlockHash |-> NoHash, id |-> p]

GenesisData == [owner |-> "null", star |-> "Genesis Block"]
StarData(address, signature, message, star) ==
    [owner |-> address, signature |-> signature, message |-> message, star |-> star]

\* SHA256(JSON.stringify(block)).toString(): the digest is collision free, so
\* it is represented by the serialized fields themselves
SHA256Json(b) == <<b.hash, b.height, b.body, b.time, b.previousBlockHash>>

\* block.validate(): recompute the digest over all fields except hash and
\* compare with the stored hash
validate(b) == b.hash = SHA256Json([b EXCEPT !.hash = NoHash])

\* ----------------------------------------------------------------- state
VARIABLES
    chain,      \* this.chain
    height,     \* this.height
    now,        \* wall clock, seconds: new Date().getTime().toString().slice(0,-3)
    queue,      \* microtask queue: the calls parked on an await, oldest first
    calls,      \* per call: locals, position and settlement
    ncalls      \* number of client calls issued so far

vars == <<chain, height, now, queue, calls, ncalls>>

\* ------------------------------------------------------- read operations
\* getChainHeight(): resolve(this.height)
getChainHeight == height

\* array.filter(pred)[0]
RECURSIVE FirstWith(_, _, _)
FirstWith(c, i, h) ==
    IF i > Len(c) THEN NoBlock
    ELSE IF c[i].height = h THEN c[i]
    ELSE FirstWith(c, i + 1, h)

\* getBlockByHeight(height)
getBlockByHeight(c, h) == FirstWith(c, 1, h)

RECURSIVE FirstWithHash(_, _, _)
FirstWithHash(c, i, h) ==
    IF i > Len(c) THEN NoBlock
    ELSE IF c[i].hash = h THEN c[i]
    ELSE FirstWithHash(c, i + 1, h)

\* the mutation of getBlockByHash that compares the wrong field
\* (p.previousBlockHash === hash)
getBlockByHash_previous(c, h) ==
    IF \E i \in 1 .. Len(c) : c[i].previousBlockHash = h
      THEN c[CHOOSE i \in 1 .. Len(c) : c[i].previousBlockHash = h]
      ELSE NoBlock

\* getBlockByHash(hash)
getBlockByHash(c, h) == FirstWithHash(c, 1, h)

\* validateChain(): self.chain[block.height - 1] is undefined when the chain is
\* shorter than the block's height; reading .hash of it throws inside the
\* async executor, whose promise is dropped, so resolve(errorLog) never runs
validateChainThrows(c) ==
    \E i \in 1 .. Len(c) : c[i].height > 0 /\ c[i].height > Len(c)

BlockErrors(c, i) ==
    (IF validate(c[i]) = FALSE
       THEN << <<"Invalid Block", c[i].height>> >> ELSE << >>)
    \o
    (IF c[i].height > 0 /\ c[i].previousBlockHash # c[c[i].height].hash
       THEN << <<"Previous Block Hash does not match for Block", c[i].height>> >>
       ELSE << >>)

RECURSIVE ErrorsFrom(_, _)
ErrorsFrom(c, i) ==
    IF i > Len(c) THEN << >> ELSE BlockErrors(c, i) \o ErrorsFrom(c, i + 1)

\* validateChain(): the errorLog it resolves with (when it resolves)
validateChain(c) == ErrorsFrom(c, 1)

\* ----------------------------------------------- ownership verification
\* requestMessageOwnershipVerification(address): `${address}:${timestamp}:starRegistry`,
\* kept as its ':'-separated parts
requestMessageOwnershipVerification(address, t) == <<address, t, "starRegistry">>

\* parseInt(message.split(':')[1])
initialTimeOf(message) == message[2]

\* deltaTime = (currentTime - initialTime)/(1000*60);  deltaTime < 5
\* (both times are in seconds; the division is exact, so the test is the
\* comparison of the numerator with 5 * (1000*60))
DeltaTimeLessThan5(currentTime, initialTime) ==
    (currentTime - initialTime) < 5 * (1000 * 60)

\* bitcoinMessage.verify(message, address, signature)
verifyThrows(signature) == signature = "malformed"
verify(signature) == signature = "valid"

\* ----------------------------------------------------------------- calls
Idle ==
    [kind |-> "none", pc |-> "idle", outcome |-> "none",
     address |-> "none", signature |-> "none", initialTime |-> Unset,
     currentTime |-> Unset, isVerified |-> FALSE,
     chainHeight |-> Unset, previousBlock |-> NoBlock, block |-> NoBlock,
     digest |-> NoHash, errorLog |-> << >>,
     tipHeight |-> Unset, tipHash |-> NoHash,
     pushed |-> FALSE, popped |-> NoBlock, afterRollback |-> FALSE,
     stars |-> << >>, decoding |-> << >>, resolvedWith |-> << >>,
     scanned |-> << >>]

\* the synchronous head of _addBlock(block): the executor runs up to
\* `await self.getChainHeight()`, whose promise already holds this.height
addBlock_call(rec, block) ==
    [rec EXCEPT !.pc = "A1", !.block = block, !.chainHeight = getChainHeight]

\* constructor(): chain = [], height = -1, initializeChain() has created the
\* genesis block and is parked inside _addBlock
Init ==
    /\ chain = << >>
    /\ height = -1
    /\ now \in {1000}
    /\ queue = <<InitProc>>
    /\ ncalls = 0
    /\ calls = [p \in Procs |->
                 IF p = InitProc
                   THEN [Idle EXCEPT !.kind = "init", !.pc = "A1",
                                     !.outcome = "pending",
                                     !.block = Block(GenesisData, InitProc),
                                     !.chainHeight = -1,
                                     !.tipHeight = -1]
                   ELSE Idle]

\* the wall clock moves on
Tick ==
    /\ \E t \in ClockValues : t > now /\ now' = t
    /\ UNCHANGED <<chain, height, queue, calls, ncalls>>

\* an append has been rolled back, no call is in flight and validateChain()
\* finds no defect (recorded when a call is issued)
AfterRollback ==
    /\ \E q \in Procs : calls[q].popped # NoBlock
    /\ queue = << >>
    /\ \A q \in Procs : calls[q].pc \in {"idle", "done"}
    /\ ~validateChainThrows(chain)
    /\ validateChain(chain) = << >>

\* hash of the last block of c (null for the empty chain)
TipHash(c) == IF Len(c) = 0 THEN NoHash ELSE c[Len(c)].hash

\* a client calls _addBlock(new Block(data)), at most n calls in all
addBlockUpTo(n) ==
    /\ ncalls < n
    /\ \E a \in Addresses, s \in Stars :
         LET p == ncalls + 1
             rec == [Idle EXCEPT !.kind = "add", !.outcome = "pending",
                                 !.address = a,
                                 !.tipHeight = height, !.tipHash = TipHash(chain),
                                 !.afterRollback = AfterRollback]
         IN  /\ calls' = [calls EXCEPT ![p] =
                            addBlock_call(rec, Block([owner |-> a, star |-> s], p))]
             /\ queue' = Append(queue, p)
             /\ ncalls' = p
    /\ UNCHANGED <<chain, height, now>>

addBlock == addBlockUpTo(MaxCalls)

\* a client calls submitStar(address, message, signature, star): the executor
\* runs up to `await bitcoinMessage.verify(...)`; when verify throws, the catch
\* rejects and the executor runs on to its end without awaiting
submitStar ==
    /\ ncalls < MaxCalls
    /\ \E a \in Addresses, s \in Stars, sig \in Signatures,
          t \in {u \in ClockValues : u <= now} :
         LET p == ncalls + 1
             message == requestMessageOwnershipVerification(a, t)
             rec == [Idle EXCEPT !.kind = "star", !.outcome = "pending",
                                 !.address = a, !.signature = sig,
                                 !.initialTime = initialTimeOf(message),
                                 !.currentTime = now,
                                 !.tipHeight = height, !.tipHash = TipHash(chain),
                                 !.afterRollback = AfterRollback,
                                 !.block = Block(StarData(a, sig, message, s), p)]
         IN  /\ ncalls' = p
             /\ IF verifyThrows(sig)
                  THEN /\ calls' = [calls EXCEPT ![p] =
                                      [rec EXCEPT !.pc = "done",
                                                  !.outcome = "Verification failed"]]
                       /\ queue' = queue
                  ELSE /\ calls' = [calls EXCEPT ![p] =
                                      [rec EXCEPT !.pc = "S1",
                                                  !.isVerified = verify(sig)]]
                       /\ queue' = Append(queue, p)
    /\ UNCHANGED <<chain, height, now>>

\* the mutation of submitStarBranch that forgets the test of isVerified
submitStarBranch_unverified(c) ==
    IF DeltaTimeLessThan5(c.currentTime, c.initialTime)
      THEN "add"
      ELSE "More than 5 minutes elapsed!"

\* the branches of lines 168-178: delegate to _addBlock, or the error rejected with
submitStarBranch(c) ==
    IF DeltaTimeLessThan5(c.currentTime, c.initialTime)
      THEN IF c.isVerified THEN "add" ELSE "Message verification failed!"
      ELSE "More than 5 minutes elapsed!"

\* submitStar after the await of verify: lines 168-178
submitStar_check ==
    /\ queue # << >>
    /\ LET p == Head(queue)
           c == calls[p]
       IN  /\ c.pc = "S1"
           /\ IF submitStarBranch(c) = "add"
                THEN /\ calls' = [calls EXCEPT ![p].pc = "S2"]
                     /\ queue' = Append(Tail(queue), p)
                ELSE /\ calls' = [calls EXCEPT ![p].pc = "done",
                                    ![p].outcome = submitStarBranch(c)]
                     /\ queue' = Tail(queue)
    /\ UNCHANGED <<chain, height, now, ncalls>>

\* submitStar after `await new BlockClass.Block(...)`: self._addBlock(block)
submitStar_delegate ==
    /\ queue # << >>
    /\ LET p == Head(queue)
           c == calls[p]
       IN  /\ c.pc = "S2"
           /\ calls' = [calls EXCEPT ![p] = addBlock_call(c, c.block)]
           /\ queue' = Append(Tail(queue), p)
    /\ UNCHANGED <<chain, height, now, ncalls>>

\* _addBlock after `await self.getChainHeight()`: lines 70-84 and 92-94
addBlock_height ==
    /\ queue # << >>
    /\ LET p == Head(queue)
           c == calls[p]
           newHeight == c.chainHeight + 1
       IN  /\ c.pc = "A1"
           /\ IF newHeight > 0
                THEN calls' = [calls EXCEPT ![p].pc = "A2",
                                 ![p].previousBlock = getBlockByHeight(chain, c.chainHeight)]
                ELSE LET b == [c.block EXCEPT !.previousBlockHash = NoHash,
                                              !.height = newHeight]
                     IN  calls' = [calls EXCEPT ![p].pc = "A3", ![p].block = b,
                                                ![p].digest = SHA256Json(b)]
           /\ queue' = Append(Tail(queue), p)
    /\ UNCHANGED <<chain, height, now, ncalls>>

\* _addBlock after `await self.getBlockByHeight(chainHeight)`: lines 85-87;
\* previousBlock.hash throws when previousBlock is null, and the catch rejects
addBlock_link ==
    /\ queue # << >>
    /\ LET p == Head(queue)
           c == calls[p]
           newHeight == c.chainHeight + 1
       IN  /\ c.pc = "A2"
           /\ IF c.previousBlock = NoBlock
                THEN /\ calls' = [calls EXCEPT ![p].pc = "done",
                                    ![p].outcome = "Invalid block created"]
                     /\ queue' = Tail(queue)
                ELSE LET b == [c.block EXCEPT
                                 !.previousBlockHash = c.previousBlock.hash,
                                 !.height = newHeight]
                     IN  /\ calls' = [calls EXCEPT ![p].pc = "A3", ![p].block = b,
                                                   ![p].digest = SHA256Json(b)]
                         /\ queue' = Append(Tail(queue), p)
    /\ UNCHANGED <<chain, height, now, ncalls>>

\* _addBlock after `await SHA256(...)`: the hash is stored, then lines 88-89
\* (or 95-96), the push of line 99 and the call of validateChain of line 100
addBlock_push ==
    /\ queue # << >>
    /\ LET p == Head(queue)
           c == calls[p]
           newHeight == c.chainHeight + 1
           b == [c.block EXCEPT !.hash = c.digest, !.time = now]
           pushedChain == Append(chain, b)
       IN  /\ c.pc = "A3"
           /\ height' = newHeight
           /\ chain' = pushedChain
           /\ IF validateChainThrows(pushedChain)
                THEN /\ calls' = [calls EXCEPT ![p].pc = "hung", ![p].block = b,
                                               ![p].pushed = TRUE]
                     /\ queue' = Tail(queue)
                ELSE /\ calls' = [calls EXCEPT ![p].pc = "A4", ![p].block = b,
                                    ![p].pushed = TRUE,
                                    ![p].errorLog = validateChain(pushedChain)]
                     /\ queue' = Append(Tail(queue), p)
    /\ UNCHANGED <<now, ncalls>>

\* _addBlock after `await self.validateChain()`: lines 102-107
addBlock_settle ==
    /\ queue # << >>
    /\ LET p == Head(queue)
           c == calls[p]
       IN  /\ c.pc = "A4"
           /\ IF c.errorLog # << >>
                THEN /\ chain' = SubSeq(chain, 1, Len(chain) - 1)
                     /\ calls' = [calls EXCEPT ![p].pc = "done",
                                    ![p].outcome = "resolved",
                                    ![p].popped = IF Len(chain) = 0 THEN NoBlock
                                                  ELSE chain[Len(chain)]]
                ELSE /\ chain' = chain
                     /\ calls' = [calls EXCEPT ![p].pc = "done",
                                               ![p].outcome = "resolved"]
           /\ queue' = Tail(queue)
    /\ UNCHANGED <<height, now, ncalls>>

\* block.getBData() of every block of c, in chain order
DecodeAll(c) == [i \in 1 .. Len(c) |-> DecodeBody(c[i].body)]

\* a client calls getStarsByWalletAddress(address): forEach starts one async
\* callback per block, each of which calls block.getBData() and parks on its
\* await; forEach returns at once and line 240 resolves with `stars`, which
\* is still empty (an empty array is truthy, so line 243 is never taken)
getStarsByWalletAddress ==
    /\ ncalls < MaxCalls
    /\ \E a \in Addresses :
         LET p == ncalls + 1
             rec == [Idle EXCEPT !.kind = "stars", !.outcome = "resolved",
                                 !.address = a,
                                 !.pc = IF Len(chain) = 0 THEN "done" ELSE "G1",
                                 !.stars = << >>,
                                 !.resolvedWith = << >>,
                                 !.decoding = DecodeAll(chain),
                                 !.scanned = chain]
         IN  /\ calls' = [calls EXCEPT ![p] = rec]
             /\ queue' = queue \o [i \in 1 .. Len(chain) |-> p]
             /\ ncalls' = p
    /\ UNCHANGED <<chain, height, now>>

\* one forEach callback after `await block.getBData()`: lines 233-235
getStars_collect ==
    /\ queue # << >>
    /\ LET p == Head(queue)
           c == calls[p]
           decodedBody == Head(c.decoding)
       IN  /\ c.pc = "G1"
           /\ calls' = [calls EXCEPT
                          ![p].stars = IF decodedBody.owner = c.address
                                         THEN Append(c.stars, decodedBody)
                                         ELSE c.stars,
                          ![p].decoding = Tail(c.decoding),
                          ![p].pc = IF Len(c.decoding) = 1 THEN "done" ELSE "G1"]
           /\ queue' = Tail(queue)
    /\ UNCHANGED <<chain, height, now, ncalls>>

Next ==
    \/ Tick
    \/ addBlock
    \/ getStarsByWalletAddress
    \/ getStars_collect
    \/ submitStar
    \/ submitStar_check
    \/ submitStar_delegate
    \/ addBlock_height
    \/ addBlock_link
    \/ addBlock_push
    \/ addBlock_settle

Spec == Init /\ [][Next]_vars

\* the runs in which clients call nothing but _addBlock
addBlockOnly == addBlockUpTo(MaxAppends)

\* the event loop runs the microtask at the head of the queue
RunMicrotask ==
    \/ addBlock_height
    \/ addBlock_link
    \/ addBlock_push
    \/ addBlock_settle

NextAppend ==
    \/ addBlockOnly
    \/ RunMicrotask

SpecAppend == Init /\ [][NextAppend]_vars

\* the microtask queue is always drained
FairSpecAppend == SpecAppend /\ WF_vars(RunMicrotask)

\* ------------------------------------------------------------ properties
Settled(c) == c.pc = "done"
Quiescent == queue = << >> /\ \A p \in Procs : calls[p].pc \in {"idle", "done"}
\* seconds between the timestamp embedded in the challenge and the submission
Elapsed(c) == c.currentTime - c.initialTime
InChain(c, b) == \E i \in 1 .. Len(c) : c[i] = b
Range(s) == {s[i] : i \in 1 .. Len(s)}
\* number of client appends that resolved
NResolved == Cardinality({p \in Procs \ {InitProc} : calls[p].outcome = "resolved"})

\* C1: once the constructor has returned the chain holds exactly the genesis
\* block: length 1, getChainHeight() = 0, genesis height 0 and
\* previousBlockHash null; the chain is never seen empty nor the height at -1.
C1_GenesisAfterConstruction ==
    /\ Len(chain) = 1
    /\ getChainHeight = 0
    /\ chain[1].height = 0
    /\ chain[1].previousBlockHash = NoHash

\* C2: after n client appends have resolved (and nothing is in flight),
\* getChainHeight() = n and the chain has n + 1 blocks.
C2_HeightCountsAppends ==
    Quiescent => (getChainHeight = NResolved /\ Len(chain) = NResolved + 1)

\* C3: a submitStar whose challenge is 300 seconds old or older, carrying a
\* signature that is valid for the address, never gets past the expiry test:
\* it settles with the expired-challenge error and pushes no block.
C3_ExpiredChallengeRejected ==
    \A p \in Procs :
      (calls[p].kind = "star" /\ calls[p].signature = "valid"
         /\ Elapsed(calls[p]) >= 5 * 60)
      => /\ calls[p].pc \in {"S1", "done"}
         /\ ~calls[p].pushed
         /\ Settled(calls[p]) => calls[p].outcome = "More than 5 minutes elapsed!"

\* C4: a submitStar issued within the expiry window with a signature that
\* verify rejects (false) or cannot parse (throws) never reaches _addBlock,
\* settles with one of the two verification errors, and none of its steps
\* changes the chain or the height.
C4_InvalidSignatureRejected ==
    [][\A p \in Procs :
         (calls'[p].kind = "star" /\ calls'[p].signature # "valid"
            /\ Elapsed(calls'[p]) < 5 * 60)
         => /\ calls'[p].pc \in {"S1", "done"}
            /\ Settled(calls'[p]) =>
                 calls'[p].outcome \in {"Verification failed",
                                        "Message verification failed!"}
            /\ calls'[p] # calls[p] =>
                 (chain' = chain /\ height' = height)]_vars

\* both kinds of invalid signature have been submitted within the window and
\* have settled
C4_Witness ==
    \E p, q \in Procs :
      /\ calls[p].kind = "star" /\ calls[p].signature = "wrong"
      /\ Elapsed(calls[p]) < 5 * 60
      /\ calls[p].outcome = "Message verification failed!"
      /\ calls[q].kind = "star" /\ calls[q].signature = "malformed"
      /\ Elapsed(calls[q]) < 5 * 60
      /\ calls[q].outcome = "Verification failed"

\* C5: when submitStar resolves, the block it resolves with is in the chain,
\* one above the tip the call started from, linked to that tip's hash, and
\* its body records the submitting address as owner.
C5_ResolvedBlockAppended ==
    [][\A p \in Procs :
         (calls[p].kind = "star" /\ calls[p].outcome = "pending"
            /\ calls'[p].outcome = "resolved")
         => LET b == calls'[p].block
            IN  /\ InChain(chain', b)
                /\ b.height = calls[p].tipHeight + 1
                /\ b.previousBlockHash = calls[p].tipHash
                /\ DecodeBody(b.body).owner = calls[p].address]_vars

\* C6: when validateChain() reported a defect after the push, the call's
\* block is no longer in the chain and the call rejects.
C6_DefectRejectsAppend ==
    [][\A p \in Procs :
         (calls[p].pc = "A4" /\ calls[p].errorLog # << >> /\ Settled(calls'[p]))
         => /\ calls'[p].outcome # "resolved"
            /\ \A i \in 1 .. Len(chain') : chain'[i].id # p]_vars

\* C7: once initialization has settled, chain length = getChainHeight() + 1
\* in every state (failed and rolled-back appends restore both).
C7_LengthIsHeightPlusOne ==
    Settled(calls[InitProc]) => Len(chain) = getChainHeight + 1

\* C8: no two blocks of the chain have the same height, and no two calls that
\* pushed a block had read the same tip height.
C8_UniqueHeights ==
    /\ \A i, j \in 1 .. Len(chain) : i # j => chain[i].height # chain[j].height
    /\ \A p, q \in Procs :
         (p # q /\ calls[p].pushed /\ calls[q].pushed)
         => calls[p].chainHeight # calls[q].chainHeight

\* C9: the block at position i has height i, and for i > 0 its
\* previousBlockHash is the hash of the block at position i - 1
\* (positions counted from 0; chain[i + 1] here).
C9_PositionIsHeight ==
    \A i \in 1 .. Len(chain) :
      /\ chain[i].height = i - 1
      /\ i > 1 => chain[i].previousBlockHash = chain[i - 1].hash

\* the defects of c by the specification: a block that fails its own
\* validation, a block whose previousBlockHash is not its predecessor's hash
SelfValid(c) == \A i \in 1 .. Len(c) : validate(c[i])
Linked(c) == \A i \in 2 .. Len(c) : c[i].previousBlockHash = c[i - 1].hash
AllReported(c) ==
    \A i \in 1 .. Len(c) :
      /\ ~validate(c[i]) =>
           \E e \in Range(BlockErrors(c, i)) : e[1] = "Invalid Block"
      /\ (i > 1 /\ c[i].previousBlockHash # c[i - 1].hash) =>
           \E e \in Range(BlockErrors(c, i)) :
             e[1] = "Previous Block Hash does not match for Block"

\* C10: on the chain as it stands, validateChain() resolves; its list is
\* empty exactly when every block validates and every block after the first
\* links to its predecessor in the sequence; and every defect is in the list.
C10_ValidateChainComplete ==
    /\ ~validateChainThrows(chain)
    /\ (validateChain(chain) = << >>) <=> (SelfValid(chain) /\ Linked(chain))
    /\ AllReported(chain)
\* hashes a client may ask for: those of every block a call has built, null
KnownHashes ==
    {calls[p].block.hash : p \in Procs} \cup {calls[p].digest : p \in Procs}
      \cup {NoHash}

\* C13: getBlockByHash(h) resolves with null when no block of the chain
\* carries h, and otherwise with a block of the chain whose hash is h.
C13_GetBlockByHash ==
    \A h \in KnownHashes :
      LET r == getBlockByHash(chain, h)
      IN  IF \A i \in 1 .. Len(chain) : chain[i].hash # h
            THEN r = NoBlock
            ELSE InChain(chain, r) /\ r.hash = h

\* the chain holds a block, found by its hash, while the hash of a block that
\* was built but is not in the chain misses
C13_Witness ==
    /\ Len(chain) > 0
    /\ getBlockByHash(chain, chain[Len(chain)].hash).hash = chain[Len(chain)].hash
    /\ \E h \in KnownHashes :
         h # NoHash /\ getBlockByHash(chain, h) = NoBlock

\* C14: getBlockByHeight(h) resolves with the block at position h when
\* 0 <= h <= getChainHeight(), and with null for every other h.
C14_GetBlockByHeight ==
    \A h \in -1 .. MaxCalls + 2 :
      IF 0 <= h /\ h <= getChainHeight
        THEN h + 1 <= Len(chain) /\ getBlockByHeight(chain, h) = chain[h + 1]
        ELSE getBlockByHeight(chain, h) = NoBlock

\* C15: the hash stored in every block of the chain is the digest of the
\* block's other fields (height, previousBlockHash, time, body) as they stand.
C15_HashIsDigest ==
    \A i \in 1 .. Len(chain) :
      chain[i].hash = SHA256Json([chain[i] EXCEPT !.hash = NoHash])

\* C16: a submitStar whose challenge is 300 seconds old or older and whose
\* signature is invalid or malformed settles with the expired-challenge error.
C16_ExpiryBeforeSignature ==
    \A p \in Procs :
      (calls[p].kind = "star" /\ calls[p].signature # "valid"
         /\ Elapsed(calls[p]) >= 5 * 60 /\ Settled(calls[p]))
      => calls[p].outcome = "More than 5 minutes elapsed!"

\* C17: a block of the chain with height 0 or a null previousBlockHash is the
\* genesis block created by initializeChain, and there is at most one such
\* block: no block of a client is sealed as a second genesis.
C17_SingleGenesis ==
    /\ \A i \in 1 .. Len(chain) :
         (chain[i].height = 0 \/ chain[i].previousBlockHash = NoHash)
         => chain[i].id = InitProc
    /\ Cardinality({i \in 1 .. Len(chain) : chain[i].height = 0}) <= 1

\* C18: the block a rollback removes is the block the same call pushed.
C18_RollbackRemovesOwnBlock ==
    [][\A p \in Procs :
         (calls[p].pc = "A4" /\ calls[p].errorLog # << >> /\ Settled(calls'[p]))
         => (Len(chain) > 0 /\ chain[Len(chain)].id = p
               /\ chain' = SubSeq(chain, 1, Len(chain) - 1))]_vars
\* C19: an append issued after a rollback, with no call in flight and a chain
\* free of defects (a direct _addBlock, or a submitStar with a fresh challenge
\* and a valid signature), resolves with a block one above the tip.
C19_AppendAfterRollback ==
    \A p \in Procs :
      (/\ calls[p].afterRollback
       /\ \/ calls[p].kind = "add"
          \/ (calls[p].kind = "star" /\ calls[p].signature = "valid"
                /\ Elapsed(calls[p]) < 5 * 60)
       /\ Settled(calls[p]))
      => /\ calls[p].outcome = "resolved"
         /\ calls[p].block.height = calls[p].tipHeight + 1
\* the records of the blocks of c owned by a, in chain order
RECURSIVE StarsOf(_, _)
StarsOf(c, a) ==
    IF c = << >> THEN << >>
    ELSE (IF DecodeBody(Head(c).body).owner = a
            THEN << DecodeBody(Head(c).body) >> ELSE << >>) \o StarsOf(Tail(c), a)

\* C11: when getStarsByWalletAddress(addr) resolves, every block has been
\* decoded and tested, and the sequence resolved with holds, in chain order,
\* exactly the records of the blocks owned by addr.
C11_StarsComplete ==
    \A p \in Procs :
      (calls[p].kind = "stars" /\ calls[p].outcome = "resolved")
      => calls[p].resolvedWith = StarsOf(calls[p].scanned, calls[p].address)
\* C12: every call that has been issued eventually settles.
C12_EveryCallSettles ==
    \A p \in Procs :
      (calls[p].outcome = "pending") ~> (calls[p].outcome # "pending")
====
